---- MODULE Spec2Model ----
(***************************************************************************)
(* Model of src/ai.py: the multi-model dispatch of the WormAI server.      *)
(*                                                                         *)
(*   home                 -> the "/" request handler                       *)
(*   generate_ai_response -> walks MODELS in order ("dispatch")            *)
(*   query_model          -> the attempt loop against one model: the       *)
(*                           requests.post call with timeout=30, the       *)
(*                           classification of its result and the          *)
(*                           time.sleep(2) taken on a 503                  *)
(*                                                                         *)
(* One request is followed from its arrival to its JSON reply.  The        *)
(* handler blocks in requests.post and in time.sleep; between two such     *)
(* points its code runs as one step.  The remote side is the environment:  *)
(* it lets time pass, delivers bytes, answers, breaks the connection or    *)
(* stays silent.  (Spec, FairSpec)                                         *)
(*                                                                         *)
(* A second part follows two requests served at the same time by two       *)
(* threads of the server, with the handler's local variables kept per      *)
(* thread and the module-level list kept apart.  (ConcSpec)                *)
(***************************************************************************)
EXTENDS Integers, Sequences, FiniteSets, TLC

\* ------------------------------------------------------------------ bounds

\* Remote computations that outlive their client's timeout at one time.
MaxAbandoned == 1
\* The clock of an open call stops counting here (seconds).
MaxElapsed == 45

\* --------------------------------------------------------- program constants

MODELS ==
    << "mistralai/Mistral-7B-Instruct-v0.2",
       "meta-llama/Llama-2-7b-chat-hf",
       "google/gemma-2b-it",
       "TinyLlama/TinyLlama-1.1B-Chat-v1.0" >>

\* query_model(prompt, model_name, max_retries=2)
max_retries == 2
\* requests.post(..., timeout=30): seconds a socket operation may stay silent
timeout == 30
\* The clocks of the model advance in steps of half a timeout.
Granule == timeout \div 2

\* ------------------------------------------------------------ Python values

PyNone == [type |-> "NoneType", val |-> <<>>]
PyStr(s) == [type |-> "str", val |-> s]
\* Python truthiness of a str-or-None value: None and "" are falsy.
Truthy(v) == v.type = "str" /\ v.val # <<>>

\* ------------------------------------------------------- generated texts

\* A text is a sequence of tokens: whitespace (" "), an ordinary character
\* ("a"), or one of the four markers the clean-up removes.
Markers == {"<s>", "</s>", "[INST]", "[/INST]"}

\* The generated_text values the remote side returns: empty, blank, plain,
\* padded, made of markers only, wrapped in markers, with inner whitespace.
Texts ==
    { <<>>,
      <<" ">>,
      <<"a">>,
      <<" ", "a", " ">>,
      <<"</s>">>,
      <<"<s>", " ", "</s>">>,
      <<"[INST]", "a", "[/INST]">>,
      <<" ", "<s>", "a", " ", "a", "</s>">> }

RECURSIVE LStrip(_)
LStrip(s) == IF s # <<>> /\ Head(s) = " " THEN LStrip(Tail(s)) ELSE s

RECURSIVE RStrip(_)
RStrip(s) ==
    IF s # <<>> /\ s[Len(s)] = " " THEN RStrip(SubSeq(s, 1, Len(s) - 1)) ELSE s

\* str.strip()
Strip(s) == LStrip(RStrip(s))

IsNotMarker(tok) == tok \notin Markers
\* .replace("<s>", "").replace("</s>", "").replace("[INST]", "").replace("[/INST]", "")
RemoveMarkers(s) == SelectSeq(s, IsNotMarker)

\* lines 92-96: strip, remove the markers, strip again
Clean(s) == Strip(RemoveMarkers(Strip(s)))

\* ------------------------------------------------------- remote responses

\* 200 ready, 503 model loading, 500 any other status
Statuses == {200, 503, 500}
\* Bodies of a 200 response: no JSON at all ("notjson"), JSON that is not a
\* list ("notalist"), an empty list ("emptylist"), a list whose first element
\* is not an object ("badelem"), or a list whose first element carries
\* generated_text ("list"; a missing key reads as the empty text).
BadKinds == {"notjson", "notalist", "emptylist", "badelem"}
Payloads ==
    [kind : BadKinds, text : {<<>>}] \cup [kind : {"list"}, text : Texts]
\* The body of a response that is not 200 is never read.
PayloadsOf(status) ==
    IF status = 200 THEN Payloads ELSE {[kind |-> "notjson", text |-> <<>>]}

\* The raw query strings a client sends in ?ask=
Queries == {<<>>, <<" ">>, <<"a">>, <<" ", "a">>}

\* ------------------------------------------------------------------- state

VARIABLES
    pc,          \* where the handler is: "idle", "call", "sleep", "done"
    user_input,  \* home: request.args.get('ask', '').strip()
    idx,         \* generate_ai_response: position in MODELS (1-based), 0 before
    attempt,     \* query_model: the loop variable of range(max_retries)
    idle,        \* seconds the socket of the open call has been silent
    elapsed,     \* seconds since the open call was issued
    outcomes,    \* per model: how each finished attempt ended
    sleeps,      \* per model: time.sleep(2) calls taken
    ret,         \* per model: what query_model returned
    calls,       \* the requests.post calls issued, by model, in order
    inflight,    \* models whose requests.post the handler is blocked in
    abandoned,   \* remote computations still running after a client timeout
    answer,      \* home: first value returned by generate_ai_response
    model_used,  \* home: second value returned by generate_ai_response
    reply        \* the JSON reply and its HTTP code

\* Two requests served at the same time (app.run(..., threaded=True))
VARIABLES
    threads,       \* per server thread: the local variables of its handler
    shared_MODELS  \* the module-level list object MODELS, as it is now

\* the variables of the request followed alone
hvars ==
    << pc, user_input, idx, attempt, idle, elapsed, outcomes, sleeps, ret,
       calls, inflight, abandoned, answer, model_used, reply >>
\* the variables of the two requests served together
cvars == << threads, shared_MODELS >>

vars ==
    << pc, user_input, idx, attempt, idle, elapsed, outcomes, sleeps, ret,
       calls, inflight, abandoned, answer, model_used, reply, threads,
       shared_MODELS >>

Providers == 1..Len(MODELS)

Pending == [type |-> "pending", val |-> <<>>]
NoReply == [status |-> "none", code |-> 0, answer |-> Pending, model |-> "absent"]

GREETING == <<"Hello! I'm powered by real AI models">>
APOLOGY == <<"I'm having trouble connecting to the AI models">>

\* The server threads that handle the two requests.
Threads == {"t1", "t2"}

\* The local variables of a handler thread before its request has arrived.
Locals0 ==
    [ pc |-> "idle", user_input |-> <<>>, idx |-> 0, model_name |-> "",
      formatted_prompt |-> <<>>, attempt |-> 0, sent |-> <<>>,
      answer |-> Pending, model_used |-> "pending", status |-> "none" ]

Init ==
    /\ threads = [t \in Threads |-> Locals0]
    /\ shared_MODELS = MODELS
    /\ pc = "idle"
    /\ user_input = <<>>
    /\ idx = 0
    /\ attempt = 0
    /\ idle = 0
    /\ elapsed = 0
    /\ outcomes = [i \in Providers |-> <<>>]
    /\ sleeps = [i \in Providers |-> 0]
    /\ ret = [i \in Providers |-> Pending]
    /\ calls = <<>>
    /\ inflight = {}
    /\ abandoned = 0
    /\ answer = Pending
    /\ model_used = "pending"
    /\ reply = NoReply

\* ------------------------------------------------------- steps of the code

\* StartCall that issues the next call without waiting for the open one.
StartCall_NoJoin(i, a) ==
    /\ pc' = "call"
    /\ idx' = i
    /\ attempt' = a
    /\ idle' = 0
    /\ elapsed' = 0
    /\ calls' = Append(calls, i)
    /\ inflight' = inflight \cup {i}
    /\ UNCHANGED <<answer, model_used, reply>>

\* lines 82-87: query_model issues requests.post for MODELS[i], iteration a
StartCall(i, a) ==
    /\ pc' = "call"
    /\ idx' = i
    /\ attempt' = a
    /\ idle' = 0
    /\ elapsed' = 0
    /\ calls' = Append(calls, i)
    /\ inflight' = (inflight \ {idx}) \cup {i}
    /\ UNCHANGED <<answer, model_used, reply>>

\* Finish with a canned answer reported as a success when no model answered.
Finish_LastResort(ans, mdl) ==
    /\ pc' = "done"
    /\ idle' = 0
    /\ elapsed' = 0
    /\ inflight' = inflight \ {idx}
    /\ answer' = IF Truthy(ans) THEN ans ELSE PyStr(APOLOGY)
    /\ model_used' = mdl
    /\ reply' = [status |-> "success", code |-> 200,
                 answer |-> IF Truthy(ans) THEN ans ELSE PyStr(APOLOGY),
                 model |-> IF Truthy(ans) THEN mdl ELSE "absent"]
    /\ UNCHANGED <<idx, attempt, calls>>

\* Finish with a canned answer picked by a trigger phrase found in the query.
Finish_Triggered(ans, mdl) ==
    /\ pc' = "done"
    /\ idle' = 0
    /\ elapsed' = 0
    /\ inflight' = inflight \ {idx}
    /\ answer' = ans
    /\ model_used' = mdl
    /\ reply' = IF Truthy(ans)
                THEN [status |-> "success", code |-> 200, answer |-> ans, model |-> mdl]
                ELSE [status |-> "error", code |-> 503,
                      answer |-> IF \E k \in 1..Len(user_input) : user_input[k] = "a"
                                 THEN PyStr(<<"Hi!">>)
                                 ELSE PyStr(APOLOGY),
                      model |-> "absent"]
    /\ UNCHANGED <<idx, attempt, calls>>

\* Finish that names the first model of the list as the source of any answer.
Finish_WrongModel(ans, mdl) ==
    /\ pc' = "done"
    /\ idle' = 0
    /\ elapsed' = 0
    /\ inflight' = inflight \ {idx}
    /\ answer' = ans
    /\ model_used' = IF Truthy(ans) THEN MODELS[1] ELSE mdl
    /\ reply' = IF Truthy(ans)
                THEN [status |-> "success", code |-> 200, answer |-> ans,
                      model |-> MODELS[1]]
                ELSE [status |-> "error", code |-> 503, answer |-> PyStr(APOLOGY),
                      model |-> "absent"]
    /\ UNCHANGED <<idx, attempt, calls>>

\* lines 139-153: generate_ai_response has returned (ans, mdl) to home
Finish(ans, mdl) ==
    /\ pc' = "done"
    /\ idle' = 0
    /\ elapsed' = 0
    /\ inflight' = inflight \ {idx}
    /\ answer' = ans
    /\ model_used' = mdl
    /\ reply' = IF Truthy(ans)
                THEN [status |-> "success", code |-> 200, answer |-> ans, model |-> mdl]
                ELSE [status |-> "error", code |-> 503, answer |-> PyStr(APOLOGY),
                      model |-> "absent"]
    /\ UNCHANGED <<idx, attempt, calls>>

\* The test of line 118 written as "response is not None": the empty text
\* passes it.
Accepts_NotNone(response) == response.type = "str"

\* line 118: if response:
Accepts(response) == Truthy(response)

\* QueryReturns that gives the request up when a model fails instead of
\* trying the next one.
QueryReturns_GiveUp(response) ==
    /\ ret' = [ret EXCEPT ![idx] = response]
    /\ IF Accepts(response)
       THEN Finish(response, MODELS[idx])
       ELSE Finish(PyNone, "None")

\* QueryReturns that steps over every other model of the list.
QueryReturns_Skip(response) ==
    /\ ret' = [ret EXCEPT ![idx] = response]
    /\ IF Accepts(response)
       THEN Finish(response, MODELS[idx])
       ELSE IF idx + 1 < Len(MODELS)
            THEN StartCall(idx + 2, 0)
            ELSE Finish(PyNone, "None")

\* QueryReturns without the return of line 120: the remaining models are
\* still tried and the last response wins.
QueryReturns_NoStop(response) ==
    /\ ret' = [ret EXCEPT ![idx] = response]
    /\ IF idx < Len(MODELS)
       THEN StartCall(idx + 1, 0)
       ELSE IF Accepts(response)
            THEN Finish(response, MODELS[idx])
            ELSE Finish(PyNone, "None")

\* lines 114-123: query_model has returned (response, model_name) to the loop
\* of generate_ai_response
QueryReturns(response) ==
    /\ ret' = [ret EXCEPT ![idx] = response]
    /\ IF Accepts(response)
       THEN Finish(response, MODELS[idx])
       ELSE IF idx < Len(MODELS)
            THEN StartCall(idx + 1, 0)
            ELSE Finish(PyNone, "None")

\* line 80: for attempt in range(max_retries) has another iteration after a
LoopHasNext(a) == a + 1 < max_retries

\* lines 80, 108: the loop body ended without return: next iteration, or the
\* loop is over and query_model returns (None, model_name)
Continue ==
    IF LoopHasNext(attempt)
    THEN StartCall(idx, attempt + 1) /\ UNCHANGED ret
    ELSE QueryReturns(PyNone)

\* lines 89-106 in the words of the design: what an attempt ended in
Outcome(status, payload) ==
    IF status = 200 /\ payload.kind = "list" THEN "Success"
    ELSE IF status = 503 THEN "TransientFailure"
    ELSE "HardFailure"

\* lines 126-139: a request arrives
home(raw) ==
    /\ pc = "idle"
    /\ user_input' = Strip(raw)
    /\ IF Strip(raw) = <<>>
       THEN /\ pc' = "done"
            /\ reply' = [status |-> "ready", code |-> 200, answer |-> PyStr(GREETING),
                         model |-> "absent"]
            /\ UNCHANGED <<idx, attempt, idle, elapsed, calls, inflight, answer, model_used>>
       ELSE StartCall(1, 0)
    /\ UNCHANGED <<outcomes, sleeps, ret, abandoned>>
    /\ UNCHANGED cvars

\* PostResponds that goes on with the loop after a 503 without waiting.
PostResponds_NoSleep(status, payload) ==
    /\ pc = "call"
    /\ outcomes' = [outcomes EXCEPT ![idx] = Append(@, Outcome(status, payload))]
    /\ IF status = 200 /\ payload.kind = "list"
       THEN QueryReturns(PyStr(Clean(payload.text)))
       ELSE Continue
    /\ UNCHANGED <<user_input, sleeps, abandoned>>
    /\ UNCHANGED cvars

\* PostResponds that waits before the next attempt after every status other
\* than 200, not after 503 alone.
PostResponds_SleepOnAll(status, payload) ==
    /\ pc = "call"
    /\ outcomes' = [outcomes EXCEPT ![idx] = Append(@, Outcome(status, payload))]
    /\ IF status = 200
       THEN /\ IF payload.kind = "list"
               THEN QueryReturns(PyStr(Clean(payload.text)))
               ELSE Continue
            /\ UNCHANGED sleeps
       ELSE /\ pc' = "sleep"
            /\ sleeps' = [sleeps EXCEPT ![idx] = @ + 1]
            /\ idle' = 0
            /\ elapsed' = 0
            /\ inflight' = inflight \ {idx}
            /\ UNCHANGED <<idx, attempt, calls, ret, answer, model_used, reply>>
    /\ UNCHANGED <<user_input, abandoned>>
    /\ UNCHANGED cvars

\* lines 89-102: requests.post returned a response
PostResponds(status, payload) ==
    /\ pc = "call"
    /\ outcomes' = [outcomes EXCEPT ![idx] = Append(@, Outcome(status, payload))]
    /\ IF status = 200
       THEN /\ IF payload.kind = "list"
               THEN QueryReturns(PyStr(Clean(payload.text)))   \* line 97
               ELSE Continue   \* 104-106 (json, .get raise) or fall through
            /\ UNCHANGED sleeps
       ELSE IF status = 503
            THEN /\ pc' = "sleep"                              \* line 101
                 /\ sleeps' = [sleeps EXCEPT ![idx] = @ + 1]
                 /\ idle' = 0
                 /\ elapsed' = 0
                 /\ inflight' = inflight \ {idx}
                 /\ UNCHANGED <<idx, attempt, calls, ret, answer, model_used, reply>>
            ELSE Continue /\ UNCHANGED sleeps                  \* fall through
    /\ UNCHANGED <<user_input, abandoned>>
    /\ UNCHANGED cvars

\* PostRaises giving up on the model at once instead of continuing the loop.
PostRaises_NoRetry ==
    /\ pc = "call"
    /\ outcomes' = [outcomes EXCEPT ![idx] = Append(@, "HardFailure")]
    /\ QueryReturns(PyNone)
    /\ UNCHANGED <<user_input, sleeps, abandoned>>
    /\ UNCHANGED cvars

\* lines 104-106: requests.post raised ConnectionError
PostRaises ==
    /\ pc = "call"
    /\ outcomes' = [outcomes EXCEPT ![idx] = Append(@, "HardFailure")]
    /\ Continue
    /\ UNCHANGED <<user_input, sleeps, abandoned>>
    /\ UNCHANGED cvars

\* PostTimesOut giving up on the model at once instead of continuing the loop.
PostTimesOut_NoRetry ==
    /\ pc = "call"
    /\ idle >= timeout
    /\ outcomes' = [outcomes EXCEPT ![idx] = Append(@, "TimedOut")]
    /\ abandoned' = IF abandoned < MaxAbandoned THEN abandoned + 1 ELSE abandoned
    /\ QueryReturns(PyNone)
    /\ UNCHANGED <<user_input, sleeps>>
    /\ UNCHANGED cvars

\* lines 86, 104-106: the socket stayed silent for timeout seconds and
\* requests.post raised Timeout; the remote side may still be computing
PostTimesOut ==
    /\ pc = "call"
    /\ idle >= timeout
    /\ outcomes' = [outcomes EXCEPT ![idx] = Append(@, "TimedOut")]
    /\ abandoned' = IF abandoned < MaxAbandoned THEN abandoned + 1 ELSE abandoned
    /\ Continue
    /\ UNCHANGED <<user_input, sleeps>>
    /\ UNCHANGED cvars

\* lines 101-102: time.sleep(2) returned; continue
SleepReturns ==
    /\ pc = "sleep"
    /\ Continue
    /\ UNCHANGED <<user_input, outcomes, sleeps, abandoned>>
    /\ UNCHANGED cvars

\* ------------------------------------------------------ steps of the remote

\* Time passes while the handler is blocked in requests.post.  The socket
\* timer fires at timeout, so silence never lasts longer.
Tick ==
    /\ pc = "call"
    /\ idle < timeout
    /\ idle' = idle + Granule
    /\ elapsed' = IF elapsed + Granule > MaxElapsed THEN MaxElapsed ELSE elapsed + Granule
    /\ UNCHANGED <<pc, user_input, idx, attempt, outcomes, sleeps, ret, calls,
                   inflight, abandoned, answer, model_used, reply>>
    /\ UNCHANGED cvars

\* The connection is established or bytes of the response arrive: the socket
\* timer starts again (timeout bounds each socket operation, not the call).
Progress ==
    /\ pc = "call"
    /\ 0 < idle
    /\ idle < timeout
    /\ idle' = 0
    /\ UNCHANGED <<pc, user_input, idx, attempt, elapsed, outcomes, sleeps, ret,
                   calls, inflight, abandoned, answer, model_used, reply>>
    /\ UNCHANGED cvars

\* A remote computation whose client gave up comes to its end.  Its
\* connection is closed; no code of the server receives anything.
LateCompletion ==
    /\ abandoned > 0
    /\ abandoned' = abandoned - 1
    /\ UNCHANGED <<pc, user_input, idx, attempt, idle, elapsed, outcomes, sleeps,
                   ret, calls, inflight, answer, model_used, reply>>
    /\ UNCHANGED cvars

Next ==
    \/ \E raw \in Queries : home(raw)
    \/ \E status \in Statuses : \E payload \in PayloadsOf(status) : PostResponds(status, payload)
    \/ PostRaises
    \/ PostTimesOut
    \/ SleepReturns
    \/ Tick
    \/ Progress
    \/ LateCompletion

Spec == Init /\ [][Next]_vars

\* The handler's own steps are taken when they can be (the server thread
\* runs, the socket timer fires, sleep ends) and time passes; nothing obliges
\* the remote side to answer, to send bytes or to break the connection.
FairSpec ==
    /\ Spec
    /\ WF_vars(\E raw \in Queries : home(raw))
    /\ WF_vars(PostTimesOut)
    /\ WF_vars(SleepReturns)
    /\ WF_vars(Tick)

\* --------------------------------------------- two requests at the same time

\* The server runs with threaded=True: each request is handled by a thread of
\* its own, and the threads' steps interleave.  What a handler keeps in local
\* variables is a field of threads[t]; what the module keeps at top level and
\* every thread reads is a variable of its own (shared_MODELS).  The clocks
\* are left out here: a timeout is one of the exceptions of PostRaises.

\* A model name, character by character ("gpt2" is a name outside MODELS).
Spelling(name) ==
    CASE name = "mistralai/Mistral-7B-Instruct-v0.2" ->
           << "m", "i", "s", "t", "r", "a", "l", "a", "i", "/", "M", "i", "s", "t", "r", "a", "l", "-", "7", "B", "-", "I", "n", "s", "t", "r", "u", "c", "t", "-", "v", "0", ".", "2" >>
      [] name = "meta-llama/Llama-2-7b-chat-hf" ->
           << "m", "e", "t", "a", "-", "l", "l", "a", "m", "a", "/", "L", "l", "a", "m", "a", "-", "2", "-", "7", "b", "-", "c", "h", "a", "t", "-", "h", "f" >>
      [] name = "google/gemma-2b-it" ->
           << "g", "o", "o", "g", "l", "e", "/", "g", "e", "m", "m", "a", "-", "2", "b", "-", "i", "t" >>
      [] name = "TinyLlama/TinyLlama-1.1B-Chat-v1.0" ->
           << "T", "i", "n", "y", "L", "l", "a", "m", "a", "/", "T", "i", "n", "y", "L", "l", "a", "m", "a", "-", "1", ".", "1", "B", "-", "C", "h", "a", "t", "-", "v", "1", ".", "0" >>
      [] name = "gpt2" ->
           << "g", "p", "t", "2" >>

UpperCase ==
    << "A", "B", "C", "D", "E", "F", "G", "H", "I", "J", "K", "L", "M",
       "N", "O", "P", "Q", "R", "S", "T", "U", "V", "W", "X", "Y", "Z" >>
LowerCase ==
    << "a", "b", "c", "d", "e", "f", "g", "h", "i", "j", "k", "l", "m",
       "n", "o", "p", "q", "r", "s", "t", "u", "v", "w", "x", "y", "z" >>
LowerChar(c) ==
    IF \E k \in 1..Len(UpperCase) : UpperCase[k] = c
    THEN LowerCase[CHOOSE k \in 1..Len(UpperCase) : UpperCase[k] = c]
    ELSE c
\* str.lower()
Lower(s) == [k \in 1..Len(s) |-> LowerChar(s[k])]

\* sub in s: sub occurs in s as a run of consecutive elements
Contains(s, sub) ==
    \E k \in 1..(Len(s) - Len(sub) + 1) : SubSeq(s, k, k + Len(sub) - 1) = sub

\* The names query_model is given here: those of MODELS and one more.
ModelNames == {MODELS[i] : i \in 1..Len(MODELS)} \cup {"gpt2"}
\* model_name.lower(), worked out once for each name
LowerName == [m \in ModelNames |-> Lower(Spelling(m))]

\* lines 62-66: the tests that select the form of the prompt
StyleOfName ==
    [m \in ModelNames |->
        IF \/ Contains(LowerName[m], <<"m", "i", "s", "t", "r", "a", "l">>)
           \/ Contains(LowerName[m], <<"l", "l", "a", "m", "a">>)
        THEN "INSTRUCTION_BRACKET"
        ELSE IF Contains(LowerName[m], <<"g", "e", "m", "m", "a">>)
             THEN "TURN_MARKER"
             ELSE "PLAIN"]
PromptStyle(model_name) == StyleOfName[model_name]

\* lines 61-67: formatted_prompt
FormatPrompt(prompt, model_name) ==
    CASE PromptStyle(model_name) = "INSTRUCTION_BRACKET" ->
             <<"<s>", "[INST]", " ">> \o prompt \o <<" ", "[/INST]">>
      [] PromptStyle(model_name) = "TURN_MARKER" ->
             <<"<start_of_turn>", "user", "\n">> \o prompt
                 \o <<"<end_of_turn>", "\n", "<start_of_turn>", "model", "\n">>
      [] OTHER ->
             <<"User:", " ">> \o prompt \o <<"\n", "Assistant:">>

\* The raw query strings the two clients send in ?ask=
ConcQueries == {<<>>, <<"a">>, <<" ", "b">>}
\* What a model sends back to a call: a text, a text that is empty once
\* cleaned, a body that is no list, "model loading", a server error.
ConcResponses ==
    { <<200, [kind |-> "list", text |-> <<"a">>]>>,
      <<200, [kind |-> "list", text |-> <<"</s>">>]>>,
      <<200, [kind |-> "notalist", text |-> <<>>]>>,
      <<503, [kind |-> "notjson", text |-> <<>>]>>,
      <<500, [kind |-> "notjson", text |-> <<>>]>> }

\* L_Post that formats the prompt again on every iteration of the loop, from
\* what the iteration before left in formatted_prompt.
L_Post_Reformat(l, a) ==
    [l EXCEPT !.pc = "call",
              !.attempt = a,
              !.formatted_prompt =
                  IF a = 0 THEN @ ELSE FormatPrompt(@, l.model_name),
              !.sent = Append(@, [model |-> l.model_name,
                                  inputs |-> IF a = 0 THEN l.formatted_prompt
                                             ELSE FormatPrompt(l.formatted_prompt,
                                                               l.model_name)])]

\* lines 69-87: iteration a of the loop posts {"inputs": formatted_prompt} to
\* the URL of model_name
L_Post(l, a) ==
    [l EXCEPT !.pc = "call",
              !.attempt = a,
              !.sent = Append(@, [model |-> l.model_name,
                                  inputs |-> l.formatted_prompt])]

\* lines 55-67, 114-116: the loop over the list takes its element i and calls
\* query_model(user_input, model_name), which formats the prompt once
L_Query(l, i, models) ==
    L_Post([l EXCEPT !.idx = i,
                     !.model_name = models[i],
                     !.formatted_prompt = FormatPrompt(l.user_input, models[i])],
           0)

\* lines 139-153: generate_ai_response returned (ans, mdl) to home
L_Finish(l, ans, mdl) ==
    [l EXCEPT !.pc = "done",
              !.answer = ans,
              !.model_used = mdl,
              !.status = IF Truthy(ans) THEN "success" ELSE "error"]

\* lines 114-123: query_model returned (response, model_name); the for loop
\* reads the list again for its next element
L_QueryReturns(l, response, models) ==
    IF Accepts(response)
    THEN L_Finish(l, response, l.model_name)
    ELSE IF l.idx < Len(models)
         THEN L_Query(l, l.idx + 1, models)
         ELSE L_Finish(l, PyNone, "None")

\* lines 80, 108
L_Continue(l, models) ==
    IF LoopHasNext(l.attempt)
    THEN L_Post(l, l.attempt + 1)
    ELSE L_QueryReturns(l, PyNone, models)

\* lines 126-139
L_home(l, raw, models) ==
    IF Strip(raw) = <<>>
    THEN [l EXCEPT !.pc = "done", !.status = "ready"]
    ELSE IF Len(models) > 0
         THEN L_Query([l EXCEPT !.user_input = Strip(raw)], 1, models)
         ELSE L_Finish([l EXCEPT !.user_input = Strip(raw)], PyNone, "None")

\* lines 89-102
L_Responds(l, status, payload, models) ==
    IF status = 200
    THEN IF payload.kind = "list"
         THEN L_QueryReturns(l, PyStr(Clean(payload.text)), models)
         ELSE L_Continue(l, models)
    ELSE IF status = 503
         THEN [l EXCEPT !.pc = "sleep"]
         ELSE L_Continue(l, models)

\* A request arrives at thread t.
t_home(t, raw) ==
    /\ threads[t].pc = "idle"
    /\ threads' = [threads EXCEPT ![t] = L_home(@, raw, shared_MODELS)]
    /\ UNCHANGED shared_MODELS
    /\ UNCHANGED hvars

\* The requests.post of thread t returned a response.
t_PostResponds(t, status, payload) ==
    /\ threads[t].pc = "call"
    /\ threads' = [threads EXCEPT ![t] = L_Responds(@, status, payload, shared_MODELS)]
    /\ UNCHANGED shared_MODELS
    /\ UNCHANGED hvars

\* t_PostRaises that takes the model that failed off the list for everyone
\* (MODELS.remove(model_name)) before it goes on.
t_PostRaises_Evict(t) ==
    /\ threads[t].pc = "call"
    /\ shared_MODELS' =
           SelectSeq(shared_MODELS, LAMBDA m : m # threads[t].model_name)
    /\ threads' = [threads EXCEPT ![t] = L_Continue(@, shared_MODELS')]
    /\ UNCHANGED hvars

\* The requests.post of thread t raised (connection error, timeout).
t_PostRaises(t) ==
    /\ threads[t].pc = "call"
    /\ threads' = [threads EXCEPT ![t] = L_Continue(@, shared_MODELS)]
    /\ UNCHANGED shared_MODELS
    /\ UNCHANGED hvars

\* The time.sleep(2) of thread t returned.
t_SleepReturns(t) ==
    /\ threads[t].pc = "sleep"
    /\ threads' = [threads EXCEPT ![t] = L_Continue(@, shared_MODELS)]
    /\ UNCHANGED shared_MODELS
    /\ UNCHANGED hvars

ConcNext ==
    \/ \E t \in Threads : \E raw \in ConcQueries : t_home(t, raw)
    \/ \E t \in Threads : \E r \in ConcResponses : t_PostResponds(t, r[1], r[2])
    \/ \E t \in Threads : t_PostRaises(t)
    \/ \E t \in Threads : t_SleepReturns(t)

ConcSpec == Init /\ [][ConcNext]_vars

\* ------------------------------------------------------------------ claims

Last(s) == s[Len(s)]
Has(s, x) == \E j \in 1..Len(s) : s[j] = x
\* requests.post calls issued for model i so far
NumCalls(i) == Cardinality({k \in 1..Len(calls) : calls[k] = i})
\* query_model has returned for model i
Returned(i) == ret[i] # Pending
\* every attempt in s reported "model loading"
AllTransient(s) == \A j \in 1..Len(s) : s[j] = "TransientFailure"
\* every model's query_model ended without a response
AllFailed == \A i \in Providers : ret[i] = PyNone

\* C1 (as claimed): when every model ends in a non-success outcome, the
\* dispatch still hands its caller a non-null answer with a null provider,
\* and no error status reaches the client.
C1_Original ==
    (pc = "done" /\ AllFailed) =>
        /\ answer.type = "str"
        /\ model_used = "None"
        /\ reply.status # "error"
        /\ reply.code < 400

\* C1 (amended): when every model ends in a non-success outcome,
\* generate_ai_response returns (None, None): the answer is null, the
\* provider is null, and the handler replies with its fixed apology text
\* under status "error" and HTTP code 503.
C1_Amended ==
    (pc = "done" /\ AllFailed) =>
        /\ answer = PyNone
        /\ model_used = "None"
        /\ reply = [status |-> "error", code |-> 503, answer |-> PyStr(APOLOGY),
                    model |-> "absent"]

\* All four models failed, by a timeout, a hard failure and an exhausted
\* "loading" among them, and the reply is out.
C1_Witness ==
    /\ pc = "done"
    /\ AllFailed
    /\ \E i \in Providers : Has(outcomes[i], "TimedOut")
    /\ \E i \in Providers : Has(outcomes[i], "HardFailure")
    /\ \E i \in Providers : AllTransient(outcomes[i])

\* C2 (as claimed): against a model that reports "loading" k times and then
\* answers, query_model makes min(k, max_retries) + 1 calls, never more than
\* max_retries + 1.  So when it has returned and every call it made ended in
\* "loading" (k is at least the number of calls made), it made exactly
\* max_retries + 1 calls.
C2_Original ==
    \A i \in Providers :
        Returned(i) =>
            /\ Len(outcomes[i]) <= max_retries + 1
            /\ AllTransient(outcomes[i]) => Len(outcomes[i]) = max_retries + 1

\* C3 (as claimed): an attempt that ends in TimedOut or HardFailure is the
\* last attempt against its model; only TransientFailure is followed by
\* another attempt.
C3_Original ==
    \A i \in Providers :
        \A j \in 1..Len(outcomes[i]) :
            j < NumCalls(i) => outcomes[i][j] = "TransientFailure"

\* C3 (amended): an attempt that ends in TimedOut or HardFailure is followed
\* by another attempt against the same model whenever the loop has an
\* iteration left, as after TransientFailure; query_model returns only on a
\* Success or when max_retries attempts have been made.
C3_Amended ==
    \A i \in Providers :
        /\ \A j \in 1..Len(outcomes[i]) :
               (outcomes[i][j] \in {"TimedOut", "HardFailure"} /\ j < max_retries)
                   => NumCalls(i) > j
        /\ Returned(i) =>
               \/ Last(outcomes[i]) = "Success"
               \/ Len(outcomes[i]) = max_retries

\* One model was called again after a timeout, another after a hard failure.
C3_Witness ==
    \E i, j \in Providers :
        /\ Len(outcomes[i]) = 2 /\ outcomes[i][1] = "TimedOut"
        /\ Len(outcomes[j]) = 2 /\ outcomes[j][1] = "HardFailure"

\* C4 (as claimed): once query_model returns a Success for model i, the
\* dispatch is over with that text and that model's id, and no model after i
\* is called.
C4_Original ==
    \A i \in Providers :
        ret[i].type = "str" =>
            /\ pc = "done"
            /\ answer = ret[i]
            /\ model_used = MODELS[i]
            /\ \A k \in 1..Len(calls) : calls[k] <= i

\* C4 (amended): once query_model returns a Success with a non-empty text
\* for model i, the dispatch is over with that text and that model's id, and
\* no model after i is called.
C4_Amended ==
    \A i \in Providers :
        Truthy(ret[i]) =>
            /\ pc = "done"
            /\ answer = ret[i]
            /\ model_used = MODELS[i]
            /\ reply.answer = ret[i]
            /\ reply.model = MODELS[i]
            /\ \A k \in 1..Len(calls) : calls[k] <= i

\* The first model answered at its first call: one call in all.
C4_Witness ==
    /\ Truthy(ret[1])
    /\ calls = <<1>>
    /\ model_used = MODELS[1]

\* The calls go down the list: the first call is to the first model, each
\* later call is to the same model as the one before or to the next one.
InOrder ==
    /\ calls # <<>> => calls[1] = 1
    /\ \A k \in 2..Len(calls) : calls[k] \in {calls[k - 1], calls[k - 1] + 1}

\* C5 (as claimed): models are called strictly in list order, model i+1 only
\* after query_model returned a non-success outcome for model i, none is
\* skipped or revisited, and the handler never awaits two calls at once.
C5_Original ==
    /\ InOrder
    /\ \A i \in Providers : (i > 1 /\ NumCalls(i) > 0) => ret[i - 1] = PyNone
    /\ Cardinality(inflight) <= 1

\* C5 (amended): models are called strictly in list order, model i+1 only
\* after query_model returned for model i with a non-success outcome or with
\* a Success whose cleaned text is empty, none is skipped or revisited, and
\* the handler never awaits two calls at once.
C5_Amended ==
    /\ InOrder
    /\ \A i \in Providers :
           (i > 1 /\ NumCalls(i) > 0) => (Returned(i - 1) /\ ~Truthy(ret[i - 1]))
    /\ Cardinality(inflight) <= 1
    /\ pc = "call" <=> inflight = {idx}
    /\ pc # "call" => inflight = {}

\* The handler is blocked in a call to the last model after calls to the
\* three before it.
C5_Witness ==
    /\ pc = "call"
    /\ inflight = {Len(MODELS)}
    /\ \A i \in Providers : NumCalls(i) > 0

\* C6 (as claimed): a model that ends in a non-success outcome is followed by
\* the next model of the list, and the result is the text and id of the
\* lowest model for which query_model returned a Success.
C6_Original ==
    /\ \A i \in Providers : (ret[i] = PyNone /\ i < Len(MODELS)) => NumCalls(i + 1) > 0
    /\ \A i \in Providers :
           (ret[i].type = "str" /\ \A j \in 1..(i - 1) : ret[j].type # "str")
               => (answer = ret[i] /\ model_used = MODELS[i])

\* C6 (amended): a model that ends in a non-success outcome is followed by
\* the next model of the list, and the result is the text and id of the
\* lowest model for which query_model returned a Success with a non-empty
\* text.
C6_Amended ==
    /\ \A i \in Providers : (ret[i] = PyNone /\ i < Len(MODELS)) => NumCalls(i + 1) > 0
    /\ \A i \in Providers :
           (Truthy(ret[i]) /\ \A j \in 1..(i - 1) : ~Truthy(ret[j]))
               => (answer = ret[i] /\ model_used = MODELS[i])

\* The first model failed hard at both attempts, the second one answered.
C6_Witness ==
    /\ pc = "done"
    /\ outcomes[1] = <<"HardFailure", "HardFailure">>
    /\ ret[1] = PyNone
    /\ Truthy(ret[2])
    /\ answer = ret[2]
    /\ model_used = MODELS[2]

\* C7 (as claimed): whatever the models do, a dispatch comes to its end.
C7_Original == <>(pc = "done")

\* C8 (as claimed): an attempt gives control back no later than timeout
\* seconds after it started, so no call is still open after that.
C8_Original == pc = "call" => elapsed <= timeout

\* What the handler holds: everything except the clocks and the remote side.
ProgVars ==
    << pc, user_input, idx, attempt, outcomes, sleeps, ret, calls, inflight,
       answer, model_used, reply >>
\* This step ends an attempt in TimedOut.
TimedOutNow ==
    /\ pc = "call"
    /\ Len(outcomes'[idx]) = Len(outcomes[idx]) + 1
    /\ Last(outcomes'[idx]) = "TimedOut"
\* This step issues a call to the model of the open call.
Reissued == Len(calls') = Len(calls) + 1 /\ Last(calls') = idx

\* C9 (as claimed): the end of a remote computation whose call timed out
\* changes nothing the handler holds, and a call that timed out is not issued
\* again.
C9_Original ==
    [][ /\ abandoned' < abandoned => UNCHANGED ProgVars
        /\ TimedOutNow => ~Reissued ]_vars

\* C9 (amended): the end of a remote computation whose call timed out changes
\* nothing the handler holds; the call that timed out is issued again by the
\* attempt loop, at the timeout, exactly when the loop has an iteration left.
C9_Amended ==
    [][ /\ abandoned' < abandoned => UNCHANGED ProgVars
        /\ TimedOutNow => (Reissued <=> attempt + 1 < max_retries) ]_vars

\* A call timed out and was issued again, the remote computation left behind
\* has ended since, and the request has its answer.
C9_Witness ==
    /\ pc = "done"
    /\ abandoned = 0
    /\ \E i \in Providers : Len(outcomes[i]) = 2 /\ outcomes[i][1] = "TimedOut"
    /\ Truthy(answer)

\* C10 (as claimed): a result without a provider is returned only after every
\* model was called and each ended in a non-success outcome.
C10_Original ==
    (pc = "done" /\ (model_used = "None" \/ reply.status = "error")) =>
        \A i \in Providers : NumCalls(i) > 0 /\ ret[i] = PyNone

\* C10 (amended): a result without a provider is returned only after every
\* model was called and each ended in a non-success outcome or in a Success
\* whose cleaned text is empty.
C10_Amended ==
    (pc = "done" /\ (model_used = "None" \/ reply.status = "error")) =>
        \A i \in Providers : NumCalls(i) > 0 /\ Returned(i) /\ ~Truthy(ret[i])

\* No provider in the result: one model returned an empty text, another none.
C10_Witness ==
    /\ pc = "done"
    /\ model_used = "None"
    /\ \E i \in Providers : ret[i] = PyStr(<<>>)
    /\ \E i \in Providers : ret[i] = PyNone


\* generate_ai_response has returned its pair to home
Produced == answer # Pending
\* The pair is a text with the id of the model whose Success carried it.
FromProvider ==
    \E i \in Providers :
        /\ model_used = MODELS[i]
        /\ answer.type = "str"
        /\ ret[i] = answer
        /\ Last(outcomes[i]) = "Success"

\* C11 (as claimed): a request gets exactly one result, and the result is
\* either the text of a Success with the id of the model that produced it, or
\* a last-resort answer with no provider; once produced it never changes.
C11_Original ==
    /\ [](Produced => (FromProvider \/ (model_used = "None" /\ answer.type = "str")))
    /\ []((pc = "done" /\ user_input # <<>>) => Produced)
    /\ [][Produced => UNCHANGED <<answer, model_used, reply>>]_vars

\* C11 (amended): a request gets exactly one result, and the result is
\* either the non-empty text of a Success with the id of the model that
\* produced it, or no answer (None) with no provider; once produced it never
\* changes.
C11_Amended ==
    /\ [](Produced => \/ (FromProvider /\ Truthy(answer))
                      \/ (model_used = "None" /\ answer = PyNone))
    /\ []((pc = "done" /\ user_input # <<>>) => Produced)
    /\ [][Produced => UNCHANGED <<answer, model_used, reply>>]_vars

\* The third model's text is the result, after an empty text from the first
\* model and no response from the second.
C11_Witness ==
    /\ pc = "done"
    /\ ret[1] = PyStr(<<>>)
    /\ ret[2] = PyNone
    /\ Truthy(answer)
    /\ answer = ret[3]
    /\ model_used = MODELS[3]


\* The trigger set of the claim's example, with "a" for the phrase "hello".
ExampleTrigger == <<"a">>
ExampleCandidates == {<<"Hi!">>, <<"Hey!">>}
\* The request went through the models and none gave an answer.
NoProviderAnswer == pc = "done" /\ user_input # <<>> /\ ~Truthy(answer)

\* C13 (as claimed): the answer given when no model answered is drawn from
\* the candidates of the first trigger phrase found in the query, e.g. one of
\* "Hi!", "Hey!" for a query holding the trigger, and is never empty.
C13_Original ==
    NoProviderAnswer =>
        /\ Contains(user_input, ExampleTrigger) => reply.answer.val \in ExampleCandidates
        /\ reply.answer.val # <<>>

\* C13 (amended): the answer given when no model answered is always the one
\* fixed apology text of the handler, whatever the query holds; no trigger is
\* matched and nothing is drawn at random.  It is never empty.
C13_Amended ==
    NoProviderAnswer =>
        /\ reply.answer = PyStr(APOLOGY)
        /\ reply.answer.val # <<>>
        /\ reply.model = "absent"

\* No model answered a query that holds the example's trigger.
C13_Witness ==
    /\ NoProviderAnswer
    /\ Contains(user_input, ExampleTrigger)
    /\ reply.answer.val # <<>>


\* What the handler does with the attempt that ends in the step:
\* query_model returns a text to the loop over the models,
ActsOnSuccess == ret'[idx].type = "str"
\* or it waits before going on with the loop,
ActsOnTransient ==
    /\ pc' = "sleep"
    /\ sleeps'[idx] = sleeps[idx] + 1
    /\ ret' = ret /\ calls' = calls
\* or it goes on with the loop at once: the next attempt on the same model,
\* or (None, model_name) once the loop is over.
ActsOnHard ==
    /\ pc' # "sleep"
    /\ sleeps' = sleeps
    /\ IF LoopHasNext(attempt)
       THEN ret' = ret /\ calls' = Append(calls, idx) /\ attempt' = attempt + 1
       ELSE ret'[idx] = PyNone
\* How the step handles the attempt that ends in it; the three ways exclude
\* one another.
Handling ==
    IF ActsOnSuccess THEN "Success"
    ELSE IF ActsOnTransient THEN "TransientFailure"
    ELSE IF ActsOnHard THEN "HardFailure"
    ELSE "none"
\* An attempt on the model being queried ends in the step.
AttemptEnds == pc = "call" /\ outcomes' # outcomes

\* The classification as claimed: 200 with a non-empty list is Success.
ClaimedClass(status, payload) ==
    IF status = 200 /\ payload.kind \in {"list", "badelem"} THEN "Success"
    ELSE IF status = 503 THEN "TransientFailure"
    ELSE "HardFailure"
\* 200 with a non-empty list whose first element is an object is Success; a
\* first element that is not an object makes .get raise and is a HardFailure.
ActualClass(status, payload) ==
    IF status = 200 /\ payload.kind = "list" THEN "Success"
    ELSE IF status = 503 THEN "TransientFailure"
    ELSE "HardFailure"

CountOf(s, x) == Cardinality({j \in 1..Len(s) : s[j] = x})
\* The step issues a further attempt on the model being queried.
Retries == pc # "idle" /\ calls' # calls /\ idx' = idx

\* C15 (as claimed): every attempt on a model after the first follows a
\* TransientFailure of the attempt before it and one wait; no attempt is
\* issued again without a wait in between, and there is no wait after a
\* TimedOut or HardFailure.
C15_Original ==
    \A i \in Providers :
        /\ \A j \in 1..Len(outcomes[i]) :
               j < NumCalls(i) => outcomes[i][j] = "TransientFailure"
        /\ sleeps[i] = CountOf(outcomes[i], "TransientFailure")

\* C15 (amended): there is exactly one wait after each TransientFailure and
\* none after a TimedOut or HardFailure; no attempt is issued during the
\* wait.  An attempt that follows a TransientFailure is issued when that one
\* wait is over; an attempt that follows a TimedOut or HardFailure is issued
\* at once, with no wait in between.  Either way it takes one iteration of the
\* loop, of which there are max_retries.
C15_Amended ==
    /\ [](\A i \in Providers :
              /\ sleeps[i] = CountOf(outcomes[i], "TransientFailure")
              /\ NumCalls(i) <= max_retries)
    /\ [](pc = "sleep" =>
              /\ Last(outcomes[idx]) = "TransientFailure"
              /\ NumCalls(idx) = Len(outcomes[idx]))
    /\ [][Retries =>
             /\ attempt' = attempt + 1
             /\ \/ /\ pc = "sleep"
                   /\ Last(outcomes[idx]) = "TransientFailure"
                   /\ outcomes' = outcomes /\ sleeps' = sleeps
                \/ /\ pc = "call"
                   /\ Last(outcomes'[idx]) \in {"TimedOut", "HardFailure"}
                   /\ sleeps' = sleeps]_vars

\* Model 1 was tried again after a 503 and its wait, model 2 was tried again
\* after a timeout with no wait.
C15_Witness ==
    /\ outcomes[1] = <<"TransientFailure", "HardFailure">>
    /\ sleeps[1] = 1
    /\ outcomes[2] = <<"TimedOut">>
    /\ NumCalls(2) = 2
    /\ sleeps[2] = 0


\* query_model returned the empty text for model i: a 200 response whose
\* generated text is empty once cleaned
EmptyText(i) == ret[i] = PyStr(<<>>)

\* C17: an answer handed back with the name of a model is a non-empty text.
\* A 200 response whose cleaned text is empty is not handed back as the
\* answer: the loop goes on to the next model (or ends with no model named
\* when it was the last), and the model that gave it is not tried again.
C17_Original ==
    /\ model_used \in {MODELS[i] : i \in Providers} =>
           /\ answer.type = "str"
           /\ answer.val # <<>>
    /\ \A i \in Providers :
           EmptyText(i) =>
               /\ Last(outcomes[i]) = "Success"
               /\ NumCalls(i) = Len(outcomes[i])
               /\ answer # ret[i]
               /\ model_used # MODELS[i]
               /\ IF i < Len(MODELS)
                  THEN NumCalls(i + 1) >= 1
                  ELSE pc = "done" /\ answer = PyNone /\ model_used = "None"

\* Model 1 answered 200 with a text that is empty once cleaned, at its first
\* attempt; it was left with an attempt to spare and model 2 gave the answer.
C17_Witness ==
    /\ EmptyText(1)
    /\ NumCalls(1) = 1
    /\ NumCalls(1) < max_retries
    /\ pc = "done"
    /\ model_used = MODELS[2]
    /\ answer.val # <<>>


\* C18 (as claimed): query_model waits only when another attempt on the same
\* model follows the wait; after a TransientFailure of the last attempt of the
\* loop it returns without waiting.
C18_Original == pc = "sleep" => LoopHasNext(attempt)


\* the place of model name m in the list as configured
ModelIndex(m) == CHOOSE i \in Providers : MODELS[i] = m
\* calls thread-local state l has made to the model in place i
SentTo(l, i) == Cardinality({k \in 1..Len(l.sent) : l.sent[k].model = MODELS[i]})
\* What a request that runs alone looks like at any time: it has called the
\* models of the list as configured, in order, up to the one it is at, each
\* at least once and at most max_retries times; its attempt counter counts
\* the calls to the model it is at; an answer carries the name of the model
\* called last; it ends without an answer only after the whole list.
SoloShape(l) ==
    /\ \A k \in 1..Len(l.sent) : \E i \in Providers : l.sent[k].model = MODELS[i]
    /\ \A j, k \in 1..Len(l.sent) :
           j < k => ModelIndex(l.sent[j].model) <= ModelIndex(l.sent[k].model)
    /\ \A i \in Providers :
           IF i <= l.idx
           THEN SentTo(l, i) >= 1 /\ SentTo(l, i) <= max_retries
           ELSE SentTo(l, i) = 0
    /\ l.pc \in {"call", "sleep"} =>
           /\ l.model_name = MODELS[l.idx]
           /\ l.attempt = SentTo(l, l.idx) - 1
    /\ (l.pc = "done" /\ l.status = "success") =>
           /\ Truthy(l.answer)
           /\ l.model_used = Last(l.sent).model
    /\ (l.pc = "done" /\ l.status = "error") =>
           /\ l.idx = Len(MODELS)
           /\ l.answer = PyNone /\ l.model_used = "None"

\* C12: two requests handled at the same time share no state that changes.
\* The list of models is never modified; each step is a step of one request
\* and leaves the local variables of the other as they were; what the step
\* does to its own request is what it does to a request that runs alone
\* against the list as configured and gets the same response; so the models
\* each request calls, its attempts and its result are those of a run alone.
C12_Original ==
    /\ [](shared_MODELS = MODELS)
    /\ [](\A t \in Threads : SoloShape(threads[t]))
    /\ [][/\ shared_MODELS' = shared_MODELS
          /\ \A t \in Threads :
               /\ threads'[t] # threads[t] =>
                      \A u \in Threads \ {t} : threads'[u] = threads[u]
               /\ \A raw \in ConcQueries :
                      t_home(t, raw) => threads'[t] = L_home(threads[t], raw, MODELS)
               /\ \A r \in ConcResponses :
                      t_PostResponds(t, r[1], r[2]) =>
                          threads'[t] = L_Responds(threads[t], r[1], r[2], MODELS)
               /\ t_PostRaises(t) => threads'[t] = L_Continue(threads[t], MODELS)
               /\ t_SleepReturns(t) => threads'[t] = L_Continue(threads[t], MODELS)]_vars

\* Both requests are under way with different texts: one is at its second
\* call to the third model, the other waits after a 503 of the first model.
C12_Witness ==
    /\ threads["t1"].pc = "call"
    /\ threads["t1"].idx = 3
    /\ threads["t1"].attempt = 1
    /\ threads["t2"].pc = "sleep"
    /\ threads["t2"].idx = 1
    /\ threads["t1"].user_input # threads["t2"].user_input
    /\ threads["t2"].user_input # <<>>


\* The three forms of a prompt, as the design names them.
Styles == {"INSTRUCTION_BRACKET", "TURN_MARKER", "PLAIN"}
Envelope(style, text) ==
    CASE style = "INSTRUCTION_BRACKET" ->
             <<"<s>", "[INST]", " ">> \o text \o <<" ", "[/INST]">>
      [] style = "TURN_MARKER" ->
             <<"<start_of_turn>", "user", "\n">> \o text
                 \o <<"<end_of_turn>", "\n", "<start_of_turn>", "model", "\n">>
      [] style = "PLAIN" ->
             <<"User:", " ">> \o text \o <<"\n", "Assistant:">>
\* the styles whose form of text is what was sent
StylesOf(inputs, text) == {st \in Styles : Envelope(st, text) = inputs}
\* the texts a request can carry
QueryTexts == {Strip(raw) : raw \in ConcQueries} \ {<<>>}

\* C16: the prompt sent to a model is a function of the text and of the
\* style of that model alone.  Every call carries the text in exactly one of
\* the three forms, the form of its model's style; every call of a request to
\* the same model carries the same prompt, retries included; two requests use
\* the same style for the same model.  The function is defined for every text
\* and every name, and each name has exactly one style: the bracketed
\* instruction form, the turn markers, or "User: ... Assistant:".
C16_Original ==
    /\ \A t \in Threads : \A k \in 1..Len(threads[t].sent) :
           StylesOf(threads[t].sent[k].inputs, threads[t].user_input)
               = {PromptStyle(threads[t].sent[k].model)}
    /\ \A t \in Threads : \A j, k \in 1..Len(threads[t].sent) :
           threads[t].sent[j].model = threads[t].sent[k].model =>
               threads[t].sent[j].inputs = threads[t].sent[k].inputs
    /\ \A t \in Threads :
           threads[t].pc \in {"call", "sleep"} =>
               threads[t].formatted_prompt =
                   FormatPrompt(threads[t].user_input, threads[t].model_name)
    /\ \A text \in QueryTexts : \A m \in ModelNames :
           /\ PromptStyle(m) \in Styles
           /\ FormatPrompt(text, m) = Envelope(PromptStyle(m), text)
           /\ Cardinality(StylesOf(FormatPrompt(text, m), text)) = 1
    /\ \A i \in Providers : PromptStyle(MODELS[i]) \in Styles
    /\ \A st \in Styles : \E m \in ModelNames : PromptStyle(m) = st

\* A request called the first model twice (a retry), the second twice and
\* then the third, which takes the turn markers where the others take the
\* bracketed form.
C16_Witness ==
    /\ Len(threads["t1"].sent) = 5
    /\ threads["t1"].sent[1].model = threads["t1"].sent[2].model
    /\ threads["t1"].sent[1].inputs = Envelope("INSTRUCTION_BRACKET", threads["t1"].user_input)
    /\ threads["t1"].sent[5].model = MODELS[3]
    /\ threads["t1"].sent[5].inputs = Envelope("TURN_MARKER", threads["t1"].user_input)

====
